---- MODULE Spec2Model ----
(***************************************************************************)
(* Model of assignment_2/nn_hiive.ipynb: the CustomFitness wrapper class   *)
(* (cell 0) and the top-to-bottom run of the experiment cells (cells 2-10) *)
(* that train a fixed feed-forward network with randomized optimization.   *)
(*                                                                         *)
(* Two specifications share the definitions of the class:                  *)
(*   Spec          a client that constructs wrappers and calls their       *)
(*                 methods with arbitrary arguments;                       *)
(*   NotebookSpec  the notebook executed cell by cell, top to bottom.      *)
(***************************************************************************)
EXTENDS Integers, Sequences, FiniteSets, TLC

VARIABLES
    \* --- client of the class (Spec) ---
    fitness,        \* the wrapper the client holds: its instance dict, or NoObject
    given,          \* the constructor arguments that built `fitness`
    instance,       \* instance dict of the object the last __init__ ran on
    built,          \* instance dict of `fitness` as its __init__ left it
    call,           \* the last call made: [op, ...arguments]
    ret,            \* value returned by the last call (None when it raised)
    raised,         \* exception raised by the last call ("" when it returned)
    invoked,        \* the calls of the inner function the last call made
    memo,           \* first evaluate since construction: [state, ret, raised],
                    \* and whether other calls followed it
    \* --- the notebook's run (NotebookSpec) ---
    pc,             \* the cell (or loop iteration) to execute next
    data,           \* X_train, X_test, y_train, y_test once cell 2 has run
    fitness_function, \* what the global name fitness_function is bound to
    total_weights,  \* global total_weights (cell 4)
    problem,        \* global problem (cell 5)
    best_state,     \* globals best_state_rhc, best_state_sa, best_state_ga
    results,        \* global results: algo -> dict
    test_accuracies, \* global test_accuracies: dict algo -> accuracy
    algo_i,         \* position of the loop `for algo in [...]` of cell 10
    printed,        \* the lines cell 10 has printed: [algo, accuracy]
    evals,          \* log of the evaluate calls the optimizers made
    error           \* exception that stopped the run ("" while it runs)

clientVars == <<fitness, given, instance, built, call, ret, raised, invoked, memo>>
notebookVars == <<pc, data, fitness_function, total_weights, problem, best_state,
                  results, test_accuracies, algo_i, printed, evals, error>>
vars == <<clientVars, notebookVars>>

(***************************************************************************)
(* Bounds of the client's inputs.                                          *)
(***************************************************************************)
MaxLen == 2         \* longest enumerated state vector
NumCandidates == 3  \* distinct state vectors an optimizer run may visit

(***************************************************************************)
(* Python values.                                                          *)
(***************************************************************************)
None == "None"
NoError == ""
NoObject == [kind |-> "unbound"]
EmptyDict == [a \in {} |-> None]
NoKwargs == [k \in {} |-> 0]
Absent == "<argument omitted>"

FunctionObject(name) == [kind |-> "function", name |-> name]

Returns(v) == [value |-> v, raised |-> NoError]
Raises(e) == [value |-> None, raised |-> e]

RECURSIVE Sum(_)
\* np.sum over a one-dimensional array
Sum(s) == IF s = <<>> THEN 0 ELSE Head(s) + Sum(Tail(s))

RECURSIVE Prod(_)
\* np.prod over a shape tuple
Prod(shape) == IF shape = <<>> THEN 1 ELSE Head(shape) * Prod(Tail(shape))

\* arr[lo:hi] for 0 <= lo <= hi: the slice is clamped to the array's end
Slice(arr, lo, hi) ==
    LET h == IF hi > Len(arr) THEN Len(arr) ELSE hi
    IN  IF lo >= h THEN <<>> ELSE SubSeq(arr, lo + 1, h)

\* arr.reshape(shape), row-major; numpy raises ValueError on a size mismatch
Reshape(arr, shape) ==
    IF Len(arr) # Prod(shape) THEN Raises("ValueError")
    ELSE Returns(IF Len(shape) = 2
                 THEN [i \in 1..shape[1] |->
                          [j \in 1..shape[2] |-> arr[(i - 1) * shape[2] + j]]]
                 ELSE arr)

(***************************************************************************)
(* Cell 2: the Iris data, split and standardized.  Only the facts the      *)
(* later cells read are kept: which split an array is and its column count.*)
(***************************************************************************)
NumFeatures == 4    \* iris.data has 4 columns
NumClasses == 3     \* to_categorical(iris.target) has 3 columns
Units1 == 10        \* Dense(10, input_dim=...)
Units2 == 10        \* Dense(10)

Unbound == [kind |-> "unbound"]

LoadedData ==
    [X_train |-> [split |-> "train", columns |-> NumFeatures],
     X_test  |-> [split |-> "test",  columns |-> NumFeatures],
     y_train |-> [split |-> "train", columns |-> NumClasses],
     y_test  |-> [split |-> "test",  columns |-> NumClasses]]

(***************************************************************************)
(* Cell 3: build_model and fitness_function.                               *)
(***************************************************************************)
\* a built Dense layer: get_weights() is [kernel, bias] with these shapes
Dense(units, input_dim) ==
    [units |-> units,
     kernel_shape |-> <<input_dim, units>>,
     bias_shape |-> <<units>>,
     weights |-> << <<>>, <<>> >>]

\* build_model(): reads the globals X_train and y_train when it is called
build_model ==
    << Dense(Units1, data.X_train.columns),
       Dense(Units2, Units1),
       Dense(data.y_train.columns, Units2) >>

\* model.evaluate(X, y, verbose=0) of the compiled model: (loss, accuracy),
\* each a function of the weights and of the arrays it is given
KerasEvaluate(layers, X, y) ==
    LET w == [i \in 1..Len(layers) |-> layers[i].weights]
    IN  [loss |-> [metric |-> "categorical_crossentropy", weights |-> w,
                   X |-> X.split, y |-> y.split],
         accuracy |-> [metric |-> "accuracy", weights |-> w,
                       X |-> X.split, y |-> y.split]]

Segment(i, part, start, shape, slice) ==
    [layer |-> i, part |-> part, from |-> start, to |-> start + Prod(shape),
     got |-> Len(slice), size |-> Prod(shape)]

RECURSIVE fitness_function_layers(_, _, _, _, _)
\* the `for layer in model.layers` loop of fitness_function, from layer i on;
\* trace records every slice the loop takes
fitness_function_layers(layers, weights, i, start, trace) ==
    IF i > Len(layers)
    THEN [raised |-> NoError, layers |-> layers, start |-> start, trace |-> trace]
    ELSE
      LET weights_shape == layers[i].kernel_shape
          biases_shape == layers[i].bias_shape
          w_slice == Slice(weights, start, start + Prod(weights_shape))
          layer_weights == Reshape(w_slice, weights_shape)
          start1 == start + Prod(weights_shape)
          b_slice == Slice(weights, start1, start1 + Prod(biases_shape))
          layer_biases == Reshape(b_slice, biases_shape)
          start2 == start1 + Prod(biases_shape)
          w_seg == Segment(i, "kernel", start, weights_shape, w_slice)
          b_seg == Segment(i, "bias", start1, biases_shape, b_slice)
      IN  IF layer_weights.raised # NoError
          THEN [raised |-> layer_weights.raised, layers |-> layers,
                start |-> start, trace |-> trace \o <<w_seg>>]
          ELSE IF layer_biases.raised # NoError
          THEN [raised |-> layer_biases.raised, layers |-> layers,
                start |-> start1, trace |-> trace \o <<w_seg, b_seg>>]
          ELSE fitness_function_layers(
                 [layers EXCEPT ![i].weights =
                     <<layer_weights.value, layer_biases.value>>],
                 weights, i + 1, start2, trace \o <<w_seg, b_seg>>)

\* fitness_function that scores the network on the test arrays
fitness_function_loss_on_test(d) ==
    IF d.raised # NoError THEN Raises(d.raised)
    ELSE Returns(KerasEvaluate(d.layers, data.X_test, data.y_test).loss)

\* the end of fitness_function, after the loop: compile, evaluate on the
\* training arrays, return the loss
fitness_function_loss(d) ==
    IF d.raised # NoError THEN Raises(d.raised)
    ELSE Returns(KerasEvaluate(d.layers, data.X_train, data.y_train).loss)

\* fitness_function(weights)
fitness_function_def(weights) ==
    fitness_function_loss(fitness_function_layers(build_model, weights, 1, 0, <<>>))

(***************************************************************************)
(* Cell 0: class CustomFitness.                                            *)
(***************************************************************************)
Labels == {"discrete", "continuous", "tsp", "either"}

\* cust_fn of the class docstring: def cust_fn(state, c): return c*np.sum(state)
cust_fn(state, kwargs) ==
    IF DOMAIN kwargs = {"c"} THEN Returns(kwargs.c * Sum(state))
    ELSE Raises("TypeError")

\* a callable with the documented signature fitness_fn(state, **kwargs) that
\* fails on some states: def head_fn(state, **kwargs): return state[0]
head_fn(state, kwargs) ==
    IF Len(state) = 0 THEN Raises("IndexError") ELSE Returns(state[1])

\* the call expression fn(state, **kwargs)
Call(fn, state, kwargs) ==
    IF fn.kind # "function" THEN Raises("TypeError")
    ELSE CASE fn.name = "cust_fn" -> cust_fn(state, kwargs)
           [] fn.name = "head_fn" -> head_fn(state, kwargs)
           [] fn.name = "fitness_function" ->
                IF DOMAIN kwargs # {} THEN Raises("TypeError")
                ELSE fitness_function_def(state)

DefaultProblemType == "continuous"

\* __init__ that assigns fitness_fn before it checks problem_type
CustomFitness_init_assign_first(fitness_fn, problem_type_arg, kwargs) ==
    LET problem_type == IF problem_type_arg = Absent THEN DefaultProblemType
                        ELSE problem_type_arg
    IN  IF problem_type \notin Labels
        THEN [self |-> [a \in {"fitness_fn"} |-> fitness_fn],
              raised |-> "Exception: problem_type does not exist."]
        ELSE [self |-> [fitness_fn |-> fitness_fn,
                        problem_type |-> problem_type,
                        kwargs |-> kwargs],
              raised |-> NoError]

\* CustomFitness.__init__(self, fitness_fn, problem_type=..., **kwargs):
\* the instance dict __init__ leaves behind and the exception it raises
CustomFitness_init(fitness_fn, problem_type_arg, kwargs) ==
    LET problem_type == IF problem_type_arg = Absent THEN DefaultProblemType
                        ELSE problem_type_arg
    IN  IF problem_type \notin Labels
        THEN [self |-> EmptyDict, raised |-> "Exception: problem_type does not exist."]
        ELSE [self |-> [fitness_fn |-> fitness_fn,
                        problem_type |-> problem_type,
                        kwargs |-> kwargs],
              raised |-> NoError]

\* the record of one call fn(*args, **kwargs)
Invocation(fn, args, kwargs) == [fn |-> fn, args |-> args, kwargs |-> kwargs]

\* the outcome of an evaluate that made the one call `made`, which came
\* back as `fitness`, and left the instance as `self`
Evaluated(self, fitness_value, made) ==
    [self |-> self, value |-> fitness_value.value,
     raised |-> fitness_value.raised, calls |-> <<made>>]

\* evaluate that forgets the keyword arguments: self.fitness_fn(state)
CustomFitness_evaluate_no_kwargs(self, state) ==
    Evaluated(self, Call(self.fitness_fn, state, NoKwargs),
              Invocation(self.fitness_fn, <<state>>, NoKwargs))

\* evaluate that rejects an empty state before calling the inner function
CustomFitness_evaluate_validating(self, state) ==
    IF Len(state) = 0
    THEN [self |-> self, value |-> None, raised |-> "Exception: empty state",
          calls |-> <<>>]
    ELSE Evaluated(self, Call(self.fitness_fn, state, self.kwargs),
                   Invocation(self.fitness_fn, <<state>>, self.kwargs))

\* evaluate that uses its keyword arguments up: self.kwargs is emptied
CustomFitness_evaluate_consuming(self, state) ==
    Evaluated([self EXCEPT !.kwargs = NoKwargs],
              Call(self.fitness_fn, state, self.kwargs),
              Invocation(self.fitness_fn, <<state>>, self.kwargs))

\* CustomFitness.evaluate(self, state): the instance afterwards, the value
\* returned, the exception raised and the calls made
CustomFitness_evaluate(self, state) ==
    Evaluated(self, Call(self.fitness_fn, state, self.kwargs),
              Invocation(self.fitness_fn, <<state>>, self.kwargs))

\* get_prob_type that reads the attribute its docstring names, self.prob_type
CustomFitness_get_prob_type_docstring(self) ==
    IF "prob_type" \in DOMAIN self
    THEN [self |-> self, value |-> self.prob_type, raised |-> NoError]
    ELSE [self |-> self, value |-> None, raised |-> "AttributeError"]

\* CustomFitness.get_prob_type(self)
CustomFitness_get_prob_type(self) ==
    [self |-> self, value |-> self.problem_type, raised |-> NoError]

(***************************************************************************)
(* A client of the class: it constructs wrappers and calls their methods.  *)
(***************************************************************************)
\* state vectors the client passes: every vector of length <= MaxLen over
\* {0, 1}, and the vector of the docstring example
StateVectors ==
    UNION {[1..n -> {0, 1}] : n \in 0..MaxLen} \cup {<<1, 2, 3, 4, 5>>}

InnerFunctions == {FunctionObject("cust_fn"), FunctionObject("head_fn")}

\* problem_type arguments: omitted, the four labels, and near misses
ProblemTypeArgs == Labels \cup {Absent, "Discrete", "binary"}

\* keyword arguments: none, or c as in the docstring example
KwargsChoices == {NoKwargs, [c |-> 10], [c |-> 2]}

NoArgs == [fitness_fn |-> Unbound, problem_type |-> Absent, kwargs |-> NoKwargs]
NoMemo == [set |-> FALSE]

ClientInit ==
    /\ fitness = NoObject
    /\ given = NoArgs
    /\ instance = EmptyDict
    /\ built = EmptyDict
    /\ call = [op |-> "none"]
    /\ ret = None
    /\ raised = NoError
    /\ invoked = <<>>
    /\ memo = NoMemo

\* fitness = CustomFitness(fitness_fn[, problem_type], **kwargs): the name
\* fitness is rebound only when __init__ returns
Construct(fitness_fn, problem_type_arg, kwargs) ==
    LET r == CustomFitness_init(fitness_fn, problem_type_arg, kwargs)
        args == [fitness_fn |-> fitness_fn, problem_type |-> problem_type_arg,
                 kwargs |-> kwargs]
    IN  /\ call' = [op |-> "__init__", args |-> args]
        /\ instance' = r.self
        /\ raised' = r.raised
        /\ ret' = None
        /\ invoked' = <<>>
        /\ IF r.raised = NoError
           THEN /\ fitness' = r.self
                /\ built' = r.self
                /\ given' = args
                /\ memo' = NoMemo
           ELSE UNCHANGED <<fitness, built, given, memo>>
        /\ UNCHANGED notebookVars

\* fitness.evaluate(state)
Evaluate(state) ==
    /\ fitness # NoObject
    /\ LET r == CustomFitness_evaluate(fitness, state)
       IN  /\ fitness' = r.self
           /\ instance' = IF instance = fitness THEN r.self ELSE instance
           /\ call' = [op |-> "evaluate", state |-> state]
           /\ ret' = r.value
           /\ raised' = r.raised
           /\ invoked' = r.calls
           /\ memo' = IF ~memo.set
                      THEN [set |-> TRUE, state |-> state, ret |-> r.value,
                            raised |-> r.raised, later |-> FALSE]
                      ELSE IF state # memo.state
                      THEN [memo EXCEPT !.later = TRUE]
                      ELSE memo
    /\ UNCHANGED <<given, built>>
    /\ UNCHANGED notebookVars

\* fitness.get_prob_type()
GetProbType ==
    /\ fitness # NoObject
    /\ LET r == CustomFitness_get_prob_type(fitness)
       IN  /\ fitness' = r.self
           /\ instance' = IF instance = fitness THEN r.self ELSE instance
           /\ call' = [op |-> "get_prob_type"]
           /\ ret' = r.value
           /\ raised' = r.raised
           /\ invoked' = <<>>
           /\ memo' = IF memo.set THEN [memo EXCEPT !.later = TRUE] ELSE memo
    /\ UNCHANGED <<given, built>>
    /\ UNCHANGED notebookVars

NotebookInit ==
    /\ pc = "cell0"
    /\ data = Unbound
    /\ fitness_function = Unbound
    /\ total_weights = 0
    /\ problem = Unbound
    /\ best_state = EmptyDict
    /\ results = EmptyDict
    /\ test_accuracies = EmptyDict
    /\ algo_i = 0
    /\ printed = <<>>
    /\ evals = {}
    /\ error = NoError

Init == ClientInit /\ NotebookInit

Next ==
    \/ \E f \in InnerFunctions, t \in ProblemTypeArgs, k \in KwargsChoices :
          Construct(f, t, k)
    \/ \E s \in StateVectors : Evaluate(s)
    \/ GetProbType

Spec == Init /\ [][Next]_vars

(***************************************************************************)
(* The notebook, run top to bottom.  training_times and histories are      *)
(* written by cells 6, 8 and 9 and read by no cell; they are left out.     *)
(***************************************************************************)
Algos == {"RHC", "SA", "GA"}
AlgoOrder == <<"RHC", "SA", "GA">>

\* d[k] = v on a dict
Put(d, k, v) == [x \in DOMAIN d \cup {k} |-> IF x = k THEN v ELSE d[x]]

WrapperObject(attrs) == [kind |-> "CustomFitness", attrs |-> attrs]

RECURSIVE total_weights_kernels_only(_)
\* total_weights that counts the kernels only
total_weights_kernels_only(layers) ==
    IF layers = <<>> THEN 0
    ELSE Prod(Head(layers).kernel_shape)
         + total_weights_kernels_only(Tail(layers))

RECURSIVE total_weights_def(_)
\* sum(np.prod(kernel shape) + np.prod(bias shape) for layer in model.layers)
total_weights_def(layers) ==
    IF layers = <<>> THEN 0
    ELSE Prod(Head(layers).kernel_shape) + Prod(Head(layers).bias_shape)
         + total_weights_def(Tail(layers))

\* mlrose.ContinuousOpt(length=..., fitness_fn=..., maximize=...)
ContinuousOpt(length, fitness_fn, maximize) ==
    [length |-> length, fitness_fn |-> fitness_fn, maximize |-> maximize]

\* the k-th state vector an optimizer may visit: problem.length reals, all
\* distinct within and across vectors
Candidate(k, length) == [i \in 1..length |-> k * length + i]

RECURSIVE Ascending(_)
Ascending(T) ==
    IF T = {} THEN <<>>
    ELSE LET m == CHOOSE x \in T : \A y \in T : x <= y
         IN  <<m>> \o Ascending(T \ {m})

LogEntry(state, r) == [state |-> state, value |-> r.value, raised |-> r.raised]

RECURSIVE EvaluateAll(_, _, _)
\* r is the outcome of evaluating Head(states): an exception ends the run
EvaluateRest(r, states, log) ==
    IF r.raised # NoError
    THEN [self |-> r.self, log |-> Append(log, LogEntry(Head(states), r)),
          raised |-> r.raised]
    ELSE EvaluateAll(r.self, Tail(states), Append(log, LogEntry(Head(states), r)))

\* the optimizer's calls problem.fitness_fn.evaluate(state), one after the
\* other
EvaluateAll(self, states, log) ==
    IF states = <<>> THEN [self |-> self, log |-> log, raised |-> NoError]
    ELSE EvaluateRest(CustomFitness_evaluate(self, Head(states)), states, log)

\* results[algo]["state"] = ...; results[algo]["fitness"] = ... written
\* under the key "RHC" whatever the algorithm
RecordResults_rhc_key(res, algo, state, fit) ==
    [res EXCEPT !["RHC"] = Put(Put(@, "state", state), "fitness", fit)]

\* results[algo]["state"] = best_state; results[algo]["fitness"] = best_fitness
RecordResults(res, algo, state, fit) ==
    [res EXCEPT ![algo] = Put(Put(@, "state", state), "fitness", fit)]

\* the states an optimizer run visits, in the order it evaluates them
Visited(T, length) ==
    [i \in 1..Cardinality(T) |-> Candidate(Ascending(T)[i], length)]

\* the fitness the run logged for a state it visited
LoggedFitness(log, state) ==
    log[CHOOSE i \in DOMAIN log : log[i].state = state].value

\* the cell's statements after the library call has returned (or raised):
\* run is the outcome of the library's evaluations, best the state returned
AfterOptimizer(algo, res, next, run, best) ==
    /\ evals' = evals \cup {run.log[i] : i \in DOMAIN run.log}
    /\ problem' = [problem EXCEPT !.fitness_fn = WrapperObject(run.self)]
    /\ fitness_function' = WrapperObject(run.self)
    /\ IF run.raised # NoError
       THEN /\ error' = run.raised
            /\ pc' = "error"
            /\ results' = res
            /\ UNCHANGED best_state
       ELSE /\ best_state' = Put(best_state, algo, best)
            /\ results' = RecordResults(res, algo, best,
                                        LoggedFitness(run.log, best))
            /\ pc' = next
            /\ UNCHANGED error

\* one optimizer cell: mlrose.<algorithm>(problem, ...) visits some state
\* vectors of length problem.length, evaluates each through the problem's
\* fitness_fn and returns one of them with its fitness; the cell then records
\* both.  Which vectors are visited and which is best is the library's choice.
RunOptimizer(algo, res, next) ==
    \E T \in (SUBSET (1..NumCandidates)) \ {{}} : \E b \in T :
        AfterOptimizer(algo, res, next,
                       EvaluateAll(problem.fitness_fn.attrs,
                                   Visited(T, problem.length), <<>>),
                       Candidate(b, problem.length))

\* cell 0: class CustomFitness is defined
Cell0 ==
    /\ pc = "cell0"
    /\ pc' = "cell1"
    /\ UNCHANGED <<data, fitness_function, total_weights, problem, best_state,
                   results, test_accuracies, algo_i, printed, evals, error>>
    /\ UNCHANGED clientVars

\* cell 1: the imports
Cell1 ==
    /\ pc = "cell1"
    /\ pc' = "cell2"
    /\ UNCHANGED <<data, fitness_function, total_weights, problem, best_state,
                   results, test_accuracies, algo_i, printed, evals, error>>
    /\ UNCHANGED clientVars

\* cell 2: load, split and standardize the data
Cell2 ==
    /\ pc = "cell2"
    /\ data' = LoadedData
    /\ pc' = "cell3"
    /\ UNCHANGED <<fitness_function, total_weights, problem, best_state,
                   results, test_accuracies, algo_i, printed, evals, error>>
    /\ UNCHANGED clientVars

\* cell 3: def build_model, def fitness_function
Cell3 ==
    /\ pc = "cell3"
    /\ fitness_function' = FunctionObject("fitness_function")
    /\ pc' = "cell4"
    /\ UNCHANGED <<data, total_weights, problem, best_state,
                   results, test_accuracies, algo_i, printed, evals, error>>
    /\ UNCHANGED clientVars

\* cell 4: model = build_model(); total_weights = sum(...)
Cell4 ==
    /\ pc = "cell4"
    /\ total_weights' = total_weights_def(build_model)
    /\ pc' = "cell5"
    /\ UNCHANGED <<data, fitness_function, problem, best_state,
                   results, test_accuracies, algo_i, printed, evals, error>>
    /\ UNCHANGED clientVars

\* cell 5: fitness_function = CustomFitness(fitness_function);
\*         problem = mlrose.ContinuousOpt(length=total_weights, ...)
Cell5 ==
    /\ pc = "cell5"
    /\ LET r == CustomFitness_init(fitness_function, Absent, NoKwargs)
       IN  IF r.raised # NoError
           THEN /\ error' = r.raised
                /\ pc' = "error"
                /\ UNCHANGED <<fitness_function, problem>>
           ELSE /\ fitness_function' = WrapperObject(r.self)
                /\ problem' = ContinuousOpt(total_weights, WrapperObject(r.self),
                                            FALSE)
                /\ pc' = "cell6"
                /\ UNCHANGED error
    /\ UNCHANGED <<data, total_weights, best_state,
                   results, test_accuracies, algo_i, printed, evals>>
    /\ UNCHANGED clientVars

\* cell 6: results = {"RHC": {}, "SA": {}, "GA": {}}; random_hill_climb
Cell6 ==
    /\ pc = "cell6"
    /\ RunOptimizer("RHC", [a \in Algos |-> EmptyDict], "cell8")
    /\ UNCHANGED <<data, total_weights, test_accuracies, algo_i, printed>>
    /\ UNCHANGED clientVars

\* cell 8: simulated_annealing
Cell8 ==
    /\ pc = "cell8"
    /\ RunOptimizer("SA", results, "cell9")
    /\ UNCHANGED <<data, total_weights, test_accuracies, algo_i, printed>>
    /\ UNCHANGED clientVars

\* cell 9: genetic_alg
Cell9 ==
    /\ pc = "cell9"
    /\ RunOptimizer("GA", results, "cell10")
    /\ UNCHANGED <<data, total_weights, test_accuracies, algo_i, printed>>
    /\ UNCHANGED clientVars

RECURSIVE test_loop_layers_bias_first(_, _, _, _, _)
\* the reconstruction loop with the bias segment read before the kernel's
test_loop_layers_bias_first(layers, state, i, start, trace) ==
    IF i > Len(layers)
    THEN [raised |-> NoError, layers |-> layers, start |-> start, trace |-> trace]
    ELSE
      LET weights_shape == layers[i].kernel_shape
          biases_shape == layers[i].bias_shape
          b_slice == Slice(state, start, start + Prod(biases_shape))
          layer_biases == Reshape(b_slice, biases_shape)
          start1 == start + Prod(biases_shape)
          w_slice == Slice(state, start1, start1 + Prod(weights_shape))
          layer_weights == Reshape(w_slice, weights_shape)
          start2 == start1 + Prod(weights_shape)
          b_seg == Segment(i, "bias", start, biases_shape, b_slice)
          w_seg == Segment(i, "kernel", start1, weights_shape, w_slice)
      IN  IF layer_biases.raised # NoError
          THEN [raised |-> layer_biases.raised, layers |-> layers,
                start |-> start, trace |-> trace \o <<b_seg>>]
          ELSE IF layer_weights.raised # NoError
          THEN [raised |-> layer_weights.raised, layers |-> layers,
                start |-> start1, trace |-> trace \o <<b_seg, w_seg>>]
          ELSE test_loop_layers_bias_first(
                 [layers EXCEPT ![i].weights =
                     <<layer_weights.value, layer_biases.value>>],
                 state, i + 1, start2, trace \o <<b_seg, w_seg>>)

RECURSIVE test_loop_layers(_, _, _, _, _)
\* the `for layer in model.layers` loop of cell 10 on results[algo]["state"],
\* from layer i on; trace records every slice the loop takes
test_loop_layers(layers, state, i, start, trace) ==
    IF i > Len(layers)
    THEN [raised |-> NoError, layers |-> layers, start |-> start, trace |-> trace]
    ELSE
      LET weights_shape == layers[i].kernel_shape
          biases_shape == layers[i].bias_shape
          w_slice == Slice(state, start, start + Prod(weights_shape))
          layer_weights == Reshape(w_slice, weights_shape)
          start1 == start + Prod(weights_shape)
          b_slice == Slice(state, start1, start1 + Prod(biases_shape))
          layer_biases == Reshape(b_slice, biases_shape)
          start2 == start1 + Prod(biases_shape)
          w_seg == Segment(i, "kernel", start, weights_shape, w_slice)
          b_seg == Segment(i, "bias", start1, biases_shape, b_slice)
      IN  IF layer_weights.raised # NoError
          THEN [raised |-> layer_weights.raised, layers |-> layers,
                start |-> start, trace |-> trace \o <<w_seg>>]
          ELSE IF layer_biases.raised # NoError
          THEN [raised |-> layer_biases.raised, layers |-> layers,
                start |-> start1, trace |-> trace \o <<w_seg, b_seg>>]
          ELSE test_loop_layers(
                 [layers EXCEPT ![i].weights =
                     <<layer_weights.value, layer_biases.value>>],
                 state, i + 1, start2, trace \o <<w_seg, b_seg>>)

\* cell 10, before the loop: test_accuracies = {}
Cell10 ==
    /\ pc = "cell10"
    /\ test_accuracies' = EmptyDict
    /\ algo_i' = 1
    /\ pc' = "loop"
    /\ UNCHANGED <<data, fitness_function, total_weights, problem, best_state,
                   results, printed, evals, error>>
    /\ UNCHANGED clientVars

\* the rest of an iteration once the weights are set: compile, evaluate on
\* the test arrays, store and print the accuracy
Report(algo, accuracy) ==
    /\ test_accuracies' = Put(test_accuracies, algo, accuracy)
    /\ printed' = Append(printed, [algo |-> algo, accuracy |-> accuracy])
    /\ algo_i' = algo_i + 1
    /\ pc' = IF algo_i = Len(AlgoOrder) THEN "done" ELSE "loop"
    /\ UNCHANGED error

\* an exception leaves the cell
Abort(exception) ==
    /\ error' = exception
    /\ pc' = "error"
    /\ UNCHANGED <<test_accuracies, printed, algo_i>>

\* the iteration for algo, d being the outcome of its reconstruction loop
Iteration(algo, d) ==
    IF d.raised # NoError THEN Abort(d.raised)
    ELSE Report(algo, KerasEvaluate(d.layers, data.X_test, data.y_test).accuracy)

\* cell 10, one iteration of `for algo in ["RHC", "SA", "GA"]`
TestLoop ==
    /\ pc = "loop"
    /\ algo_i <= Len(AlgoOrder)
    /\ IF "state" \notin DOMAIN results[AlgoOrder[algo_i]]
       THEN Abort("KeyError")
       ELSE Iteration(AlgoOrder[algo_i],
                      test_loop_layers(build_model,
                                       results[AlgoOrder[algo_i]].state,
                                       1, 0, <<>>))
    /\ UNCHANGED <<data, fitness_function, total_weights, problem, best_state,
                   results, evals>>
    /\ UNCHANGED clientVars

NotebookNext ==
    \/ Cell0
    \/ Cell1
    \/ Cell2
    \/ Cell3
    \/ Cell4
    \/ Cell5
    \/ Cell6
    \/ Cell8
    \/ Cell9
    \/ Cell10
    \/ TestLoop

NotebookSpec == Init /\ [][NotebookNext]_vars

(***************************************************************************)
(* Properties of the class, checked under Spec.                            *)
(***************************************************************************)
AllAttributes == {"fitness_fn", "problem_type", "kwargs"}
RejectionMessage == "Exception: problem_type does not exist."

\* what the inner function given at construction does on the last state
InnerOutcome == Call(given.fitness_fn, call.state, given.kwargs)

\* C1: evaluate(s) calls the inner function once, with s as the only
\* positional argument and the keyword arguments given at construction, and
\* returns the value it returns untransformed (150 in the docstring example).
C1_EvaluateReturnsInnerValue ==
    call.op = "evaluate" =>
        /\ invoked = <<Invocation(given.fitness_fn, <<call.state>>, given.kwargs)>>
        /\ InnerOutcome.raised = NoError =>
               /\ raised = NoError
               /\ ret = InnerOutcome.value
        /\ ( /\ given.fitness_fn = FunctionObject("cust_fn")
             /\ given.kwargs = [c |-> 10]
             /\ call.state = <<1, 2, 3, 4, 5>> ) =>
               /\ raised = NoError
               /\ ret = 150

C1_Witness ==
    /\ call.op = "evaluate"
    /\ given.fitness_fn = FunctionObject("cust_fn")
    /\ given.kwargs = [c |-> 10]
    /\ call.state = <<1, 2, 3, 4, 5>>
    /\ raised = NoError
    /\ ret = 150

\* C2: __init__ with a problem_type that is not one of the four labels raises
\* before any attribute is assigned, so the object holds no attribute; with
\* one of the four labels it never raises and the wrapper holds all three.
C2_InitRejectsUnsupportedLabel ==
    call.op = "__init__" =>
        /\ call.args.problem_type \notin (Labels \cup {Absent}) =>
               /\ raised = RejectionMessage
               /\ DOMAIN instance = {}
               /\ fitness # instance
        /\ call.args.problem_type \in Labels =>
               /\ raised = NoError
               /\ DOMAIN instance = AllAttributes
               /\ fitness = instance

C2_Witness ==
    /\ call.op = "__init__"
    /\ call.args.problem_type = "Discrete"
    /\ raised = RejectionMessage
    /\ DOMAIN instance = {}
    /\ fitness # NoObject

\* C3: a wrapper constructed without a problem_type argument reports
\* 'either' from get_prob_type.
C3_DefaultProblemTypeIsEither ==
    (call.op = "get_prob_type" /\ given.problem_type = Absent) =>
        (raised = NoError /\ ret = "either")

\* C4: get_prob_type returns the label supplied to the constructor, and that
\* value is one of the four labels, whatever calls were made before.
C4_ProbTypeIsSuppliedLabel ==
    /\ fitness # NoObject => fitness.problem_type \in Labels
    /\ call.op = "get_prob_type" =>
           /\ raised = NoError
           /\ ret \in Labels
           /\ given.problem_type # Absent => ret = given.problem_type

C4_Witness ==
    /\ call.op = "get_prob_type"
    /\ given.problem_type = "tsp"
    /\ raised = NoError
    /\ ret = "tsp"
    /\ memo.set
    /\ memo.later

\* C7: the only error of the wrapper's own is the rejection in __init__;
\* get_prob_type never raises; evaluate validates nothing (it always makes
\* the inner call) and raises exactly what the inner function raises, with
\* the wrapper's attributes left as they were.
C7_OnlyInnerErrorsPropagate ==
    /\ call.op = "__init__" => raised \in {NoError, RejectionMessage}
    /\ call.op = "get_prob_type" => raised = NoError
    /\ call.op = "evaluate" =>
           /\ Len(invoked) = 1
           /\ raised = InnerOutcome.raised
           /\ fitness = built

C7_Witness ==
    /\ call.op = "evaluate"
    /\ call.state = <<>>
    /\ raised = "IndexError"
    /\ fitness = built

\* C10: evaluate and get_prob_type leave the wrapper as __init__ built it,
\* every evaluate forwards the keyword arguments given at construction, and
\* evaluating a state again gives the first outcome whatever came between.
C10_MethodsLeaveWrapperUnchanged ==
    fitness # NoObject =>
        /\ fitness = built
        /\ fitness.fitness_fn = given.fitness_fn
        /\ fitness.kwargs = given.kwargs
        /\ call.op = "evaluate" =>
               /\ \A i \in DOMAIN invoked : invoked[i].kwargs = given.kwargs
               /\ (memo.set /\ memo.state = call.state) =>
                      /\ raised = memo.raised
                      /\ raised = NoError => ret = memo.ret

C10_Witness ==
    /\ call.op = "evaluate"
    /\ memo.set
    /\ memo.later
    /\ memo.state = call.state
    /\ given.kwargs = [c |-> 2]
    /\ raised = NoError
    /\ ret = memo.ret
    /\ ret > 0

(***************************************************************************)
(* Properties of the notebook's run, checked under NotebookSpec.           *)
(***************************************************************************)
RECURSIVE Concat(_)
Concat(seqs) == IF seqs = <<>> THEN <<>> ELSE Head(seqs) \o Concat(Tail(seqs))

\* the flat vector a network's weights were cut from: per layer, the kernel
\* row by row, then the bias
Flatten(w) == Concat([i \in DOMAIN w |-> Concat(w[i][1]) \o w[i][2]])

\* parameter count of the fixed 4-10-10-3 network
ParameterCount ==
    (NumFeatures * Units1 + Units1) + (Units1 * Units2 + Units2)
    + (Units2 * NumClasses + NumClasses)

\* value is the loss on the training arrays of the network decoded from state
IsTrainingLossOf(value, state) ==
    /\ value.metric = "categorical_crossentropy"
    /\ value.X = "train"
    /\ value.y = "train"
    /\ Flatten(value.weights) = state

\* C5: the fitness the optimizer obtains for a state through the wrapper is
\* the training-set loss of the network decoded from that state, the
\* wrapper's inner callable is the raw fitness_function defined in cell 3,
\* and the problem is configured to minimize.
C5_FitnessIsTrainingLoss ==
    /\ \A e \in evals :
           /\ e.raised = NoError
           /\ IsTrainingLossOf(e.value, e.state)
    /\ \A a \in DOMAIN results :
           "fitness" \in DOMAIN results[a] =>
               IsTrainingLossOf(results[a].fitness, results[a].state)
    /\ problem # Unbound =>
           /\ problem.maximize = FALSE
           /\ problem.fitness_fn.kind = "CustomFitness"
           /\ problem.fitness_fn.attrs.fitness_fn = FunctionObject("fitness_function")
           /\ problem.fitness_fn.attrs.kwargs = NoKwargs
           /\ fitness_function = problem.fitness_fn

C5_Witness ==
    /\ pc = "done"
    /\ Cardinality(evals) = NumCandidates
    /\ \A e \in evals : e.raised = NoError /\ e.value.X = "train"
    /\ results["GA"].fitness.X = "train"
    /\ fitness_function.kind = "CustomFitness"

\* C6: every algorithm's best state is in results before the evaluation loop
\* reads it, the accuracy stored and printed for an algorithm is the test-set
\* accuracy of the network cut from that algorithm's own best state, and the
\* run ends with test_accuracies holding exactly RHC, SA and GA.
C6_AccuracyReportedPerAlgorithm ==
    /\ error = NoError
    /\ pc # "error"
    /\ pc \in {"cell10", "loop", "done"} =>
           \A a \in Algos : /\ a \in DOMAIN best_state
                            /\ "state" \in DOMAIN results[a]
                            /\ results[a].state = best_state[a]
    /\ DOMAIN test_accuracies \subseteq Algos
    /\ \A a \in DOMAIN test_accuracies :
           /\ test_accuracies[a].metric = "accuracy"
           /\ test_accuracies[a].X = "test"
           /\ test_accuracies[a].y = "test"
           /\ Flatten(test_accuracies[a].weights) = best_state[a]
    /\ \A i \in DOMAIN printed :
           /\ printed[i].algo = AlgoOrder[i]
           /\ printed[i].accuracy = test_accuracies[printed[i].algo]
    /\ pc = "done" =>
           /\ DOMAIN test_accuracies = Algos
           /\ Len(printed) = Len(AlgoOrder)

C6_Witness ==
    /\ pc = "done"
    /\ DOMAIN test_accuracies = Algos
    /\ best_state["RHC"] # best_state["SA"]
    /\ best_state["SA"] # best_state["GA"]
    /\ test_accuracies["RHC"] # test_accuracies["SA"]
    /\ Len(printed) = Len(AlgoOrder)

\* the loop's slices tile the vector: kernel before bias per layer, each
\* slice as long as its shape needs, each starting where the last ended, the
\* first at 0 and the last ending at the vector's end
ExactTiling(d, state) ==
    /\ d.raised = NoError
    /\ d.start = Len(state)
    /\ Len(d.trace) = 2 * Len(build_model)
    /\ d.trace[1].from = 0
    /\ d.trace[Len(d.trace)].to = Len(state)
    /\ \A k \in 1..(Len(d.trace) - 1) : d.trace[k + 1].from = d.trace[k].to
    /\ \A k \in DOMAIN d.trace :
           /\ d.trace[k].size > 0
           /\ d.trace[k].got = d.trace[k].size
           /\ d.trace[k].to - d.trace[k].from = d.trace[k].size
           /\ d.trace[k].layer = (k + 1) \div 2
           /\ d.trace[k].part = IF k % 2 = 1 THEN "kernel" ELSE "bias"
           /\ d.trace[k].size =
                  IF k % 2 = 1 THEN Prod(build_model[(k + 1) \div 2].kernel_shape)
                  ELSE Prod(build_model[(k + 1) \div 2].bias_shape)

\* C8: the vectors handed to the optimizer have length total_weights, the
\* network's parameter count, and fitness_function's loop consumes such a
\* vector exactly.
C8_DecodeConsumesVectorExactly ==
    /\ problem # Unbound =>
           /\ total_weights = ParameterCount
           /\ problem.length = total_weights
    /\ \A e \in evals :
           /\ Len(e.state) = total_weights
           /\ ExactTiling(fitness_function_layers(build_model, e.state, 1, 0, <<>>),
                          e.state)

C8_Witness ==
    /\ pc = "cell8"
    /\ total_weights = ParameterCount
    /\ Cardinality(evals) >= 2
    /\ \A e \in evals :
           /\ Len(e.state) = total_weights
           /\ e.raised = NoError

\* C9: cell 10 rebuilds the network from a state vector exactly as
\* fitness_function does, so the network scored on the test set is the one
\* whose training loss the optimizer saw for that state.
C9_TestReconstructionMatchesFitness ==
    /\ problem # Unbound =>
           \A k \in 1..NumCandidates :
               test_loop_layers(build_model, Candidate(k, total_weights), 1, 0, <<>>)
               = fitness_function_layers(build_model, Candidate(k, total_weights),
                                         1, 0, <<>>)
    /\ \A a \in DOMAIN test_accuracies :
           /\ \E e \in evals : e.state = results[a].state
           /\ \A e \in evals :
                  e.state = results[a].state =>
                      /\ e.raised = NoError
                      /\ e.value.weights = test_accuracies[a].weights

C9_Witness ==
    /\ pc = "done"
    /\ \E e \in evals :
           /\ e.state = results["SA"].state
           /\ e.raised = NoError
           /\ e.value.weights = test_accuracies["SA"].weights
           /\ e.value.X = "train"
           /\ test_accuracies["SA"].X = "test"

====
